---- MODULE Spec2Model ----
(***************************************************************************)
(* Model of the parallel chunked compression orchestrator of               *)
(* misc/libqpl/qpl-wrappers/qpl_helper.cpp: compress() followed by         *)
(* decompress() of the produced frame on the same context, against an      *)
(* asynchronous engine (qpl_submit_job / qpl_check_job / qpl_execute_job). *)
(*                                                                         *)
(* Buffers.  The compressed buffer is modelled in two parts: the header    *)
(* words (hdr, indexed by 32-bit word) and the payload bytes (data,        *)
(* indexed by absolute byte offset from header_offset up to the caller's   *)
(* capacity).  A payload byte is a token <<src, len, n, j>>: byte j of the *)
(* n-byte stream the engine produced for the input window [src, src+len).  *)
(* The input is the byte sequence 0, 1, ..., input_size-1 (every byte      *)
(* distinct), so a decompressed byte is right iff it equals its offset.    *)
(***************************************************************************)
EXTENDS Integers, Sequences, FiniteSets, TLC

\* ---- bounds of the model ------------------------------------------------
MaxS == 5
MaxB == 2
MaxN == 4
MaxData == 6
MaxC == 3
MaxSlack == 1
MaxFaults == 1
MaxGarbage == 3
MaxCraft == 2
MaxCraftJobs == 2
MaxRepeat == 3      \* repeated polls of a finished job (42 in the engine's test)

\* ---- program constants ----------------------------------------------------
WordSize == 4
HeaderWords == 4
TableBase == 3
INT_MAX == 2147483647

VARIABLES
    pc,                     \* position of the host thread
    input_size, block_size, jobs_number, capacity,   \* arguments of compress
    hdr, data,              \* compressed_data: header words / payload bytes
    out,                    \* decompressed_data
    job, job_c,             \* ctx->job, ctx->job_c[]
    compressed_size,        \* *compressed_size
    decompressed_size,      \* *decompressed_size
    i, j,
    next_to_copy_block_idx, next_to_copy_block, out_block_size,
    next_to_queue_src_addr, next_to_copy_src_addr, next_to_copy_dst_addr,
    total_compressed_size,
    out_capacity,           \* capacity of decompressed_data passed to decompress
    in_data, out_byte_ptr,  \* decompress cursors
    status_check_c,         \* the status vector handed to wait_for_all_jobs
    status,                 \* last engine call: [call, slot, status]
    err_seen,               \* "none" | "seen" | "called_after" (hard engine status history of the call)
    engine_total_out,       \* history: total_out the engine reported for the block at input offset k * block_size
    faults,                 \* number of engine faults (spurious hard errors, missed deadline) so far
    heap,                   \* the live allocations of the context
    ctx,                    \* what allocate_qpl_context returned: "unset" | "ctx" | "NULL" | "bad_alloc"
    inited,                 \* the job records initialised by qpl_init_job and not finalised
    initialized,            \* the flag the caller passes to free_qpl_context
    fini_log                \* history: the records qpl_fini_job was called on, in call order

args == <<input_size, block_size, jobs_number, capacity>>
bufs == <<hdr, data, out>>
clocals == <<i, j, next_to_copy_block_idx, next_to_copy_block, out_block_size,
             next_to_queue_src_addr, next_to_copy_src_addr, next_to_copy_dst_addr,
             total_compressed_size>>
dlocals == <<out_capacity, in_data, out_byte_ptr, status_check_c>>
pool == <<heap, ctx, inited, initialized, fini_log>>
\* what the context life cycle leaves alone
work == <<args, bufs, job, job_c, compressed_size, decompressed_size,
          next_to_copy_block_idx, next_to_copy_block, out_block_size,
          next_to_queue_src_addr, next_to_copy_src_addr, next_to_copy_dst_addr,
          total_compressed_size, dlocals, status, err_seen, engine_total_out, faults>>
vars == <<pc, args, bufs, job, job_c, compressed_size, decompressed_size,
          clocals, dlocals, status, err_seen, engine_total_out, faults, pool>>

\* ---- values -----------------------------------------------------------------
U == <<>>                       \* an uninitialised payload byte
UWord == 0 - 1                  \* an uninitialised header word or output byte
QPL_STS_OK == "QPL_STS_OK"
QPL_STS_BEING_PROCESSED == "QPL_STS_BEING_PROCESSED"
QPL_STS_QUEUES_ARE_BUSY_ERR == "QPL_STS_QUEUES_ARE_BUSY_ERR"
QPL_STS_JOB_NOT_SUBMITTED == "QPL_STS_JOB_NOT_SUBMITTED"
QPL_STS_ERR == "QPL_STS_ERR"    \* any other (hard) status

\* ---- 32-bit unsigned arithmetic ----------------------------------------------
\* A header field is a 32-bit word; the model holds the words below 2^31 as
\* integers.  The result of an operation on words is a pair <<high, low>> of
\* 16-bit halves, so that the value modulo 2^32 is kept exactly.
Half == 65536
Lo16(x) == x % Half
Hi16(x) == x \div Half

\* a * b modulo 2^32
Mul32(a, b) ==
    LET p0 == Lo16(a) * (Lo16(b) % 256)
        p1 == Lo16(a) * (Lo16(b) \div 256)
        low == (p1 % 256) * 256 + p0
        cross == ((Hi16(a) * Lo16(b)) % Half) + ((Lo16(a) * Hi16(b)) % Half)
    IN <<(p1 \div 256 + low \div Half + cross) % Half, low % Half>>

\* p + c modulo 2^32, p a pair and c a word
Add32(p, c) ==
    LET low == p[2] + Lo16(c)
    IN <<(p[1] + Hi16(c) + low \div Half) % Half, low % Half>>

\* p > n, the pair zero-extended to the width of size_t
Gt32(p, n) == p[1] > Hi16(n) \/ (p[1] = Hi16(n) /\ p[2] > Lo16(n))

ToNat(p) == p[1] * Half + p[2]

\* pointer + n; every address from INT_MAX on lies beyond every buffer of the
\* model and stands for all of them
PtrAdd(ptr, n) == IF n >= INT_MAX - ptr THEN INT_MAX ELSE ptr + n

IsHard(s) == s \notin {QPL_STS_OK, QPL_STS_BEING_PROCESSED, QPL_STS_QUEUES_ARE_BUSY_ERR}

\* the allocations of a context
Envelope == <<"ctx", 0>>
SingleJob == <<"job", 0>>
VectorStorage == <<"job_c storage", 0>>
Rec(k) == <<"job_c", k>>
Records(n) == {SingleJob} \cup {Rec(k) : k \in 0..(n - 1)}

IdleJob == [st |-> "idle", op |-> "none", next_in_ptr |-> 0, available_in |-> 0,
            next_out_ptr |-> 0, available_out |-> 0, total_out |-> 0, crc64 |-> <<>>]

\* ---- block plan of compress (qpl_helper.cpp:129-133) ---------------------
\* mutant: the block count rounded up
blocks_rounded_up ==
    input_size \div block_size + (IF input_size % block_size > 0 THEN 1 ELSE 0)

blocks == input_size \div block_size
last_block_size == input_size % block_size
HeaderOffset(b) == (b + HeaderWords) * WordSize
header_offset == HeaderOffset(blocks)

\* the job fields set before a submit / execute
Configure(rec, op, nin, ain, nout, aout) ==
    [rec EXCEPT !.op = op, !.next_in_ptr = nin, !.available_in = ain,
                !.next_out_ptr = nout, !.available_out = aout]

\* ---- memory ---------------------------------------------------------------
Byte(buf, a) == IF a \in DOMAIN buf THEN buf[a] ELSE U

RECURSIVE CopyForward(_, _, _, _, _)
CopyForward(buf, dst, src, k, n) ==
    IF k >= n THEN buf
    ELSE CopyForward([buf EXCEPT ![dst + k] = Byte(buf, src + k)], dst, src, k + 1, n)

RECURSIVE CopyBackward(_, _, _, _)
CopyBackward(buf, dst, src, n) ==
    IF n = 0 THEN buf
    ELSE CopyBackward([buf EXCEPT ![dst + n - 1] = Byte(buf, src + n - 1)], dst, src, n - 1)

\* std::memcpy(dst, src, n) inside one buffer: the result when the ranges are
\* disjoint; when they overlap the behaviour is undefined and the copy may run
\* in either direction.
Memcpy(buf, dst, src, n) ==
    {CopyForward(buf, dst, src, 0, n), CopyBackward(buf, dst, src, n)}

\* ---- engine -----------------------------------------------------------------
\* sizes the engine may report for a compression into a window of aout bytes
CompressSizes(aout) == {c \in 1..MaxC : c <= aout}

WriteStream(buf, at, src, len, n) ==
    [a \in DOMAIN buf |-> IF a >= at /\ a < at + n THEN <<src, len, n, a - at>> ELSE buf[a]]

\* the stream that starts at byte `at` of buf and is complete within ain bytes
HasStream(buf, at, ain) ==
    LET t == Byte(buf, at) IN
    /\ ain >= 1
    /\ t # U
    /\ t[4] = 0
    /\ t[3] <= ain
    /\ \A k \in 0..(t[3] - 1) : Byte(buf, at + k) = <<t[1], t[2], t[3], k>>

WritePlain(buf, at, src, len) ==
    [a \in DOMAIN buf |-> IF a >= at /\ a < at + len THEN src + (a - at) ELSE buf[a]]

Call(kind, slot, st) ==
    /\ status' = [call |-> kind, slot |-> slot, status |-> st]
    /\ err_seen' = IF err_seen # "none" THEN "called_after"
                   ELSE IF IsHard(st) THEN "seen" ELSE "none"

\* mutant: a job that was never submitted is reported as being processed
CheckStatus_idle_is_processed(rec) ==
    CASE rec.st \in {"idle", "inflight"} -> QPL_STS_BEING_PROCESSED
      [] rec.st = "ok" -> QPL_STS_OK
      [] OTHER -> QPL_STS_ERR

\* mutant: a finished job is reported as not submitted
CheckStatus_ok_is_forgotten(rec) ==
    CASE rec.st \in {"idle", "ok"} -> QPL_STS_JOB_NOT_SUBMITTED
      [] rec.st = "inflight" -> QPL_STS_BEING_PROCESSED
      [] OTHER -> QPL_STS_ERR

\* qpl_check_job on a job record
CheckStatus(rec) ==
    CASE rec.st = "idle" -> QPL_STS_JOB_NOT_SUBMITTED
      [] rec.st = "inflight" -> QPL_STS_BEING_PROCESSED
      [] rec.st = "ok" -> QPL_STS_OK
      [] OTHER -> QPL_STS_ERR

\* results of qpl_submit_job
SubmitResults ==
    {QPL_STS_OK, QPL_STS_QUEUES_ARE_BUSY_ERR} \cup (IF faults < MaxFaults THEN {QPL_STS_ERR} ELSE {})

Fault(st) == faults' = IF st = QPL_STS_ERR THEN faults + 1 ELSE faults

\* mutant: a busy submit is not retried
RetrySubmit_never(st) == FALSE

\* do { status = qpl_submit_job(...); } while (status == QPL_STS_QUEUES_ARE_BUSY_ERR);
RetrySubmit(st) == st = QPL_STS_QUEUES_ARE_BUSY_ERR

\* QPL_CHECK_STATUS(status, step): return unless the status is QPL_STS_OK
CheckStatusFails(st) == st # QPL_STS_OK

\* mutant: a job that is still being processed counts as done
JobDone_or_processing(st) == st \in {QPL_STS_OK, QPL_STS_BEING_PROCESSED}

\* if (QPL_STS_OK == status): the polled job is done (lines 197, 249, 353)
JobDone(st) == st = QPL_STS_OK

\* the test of the polling loops that keeps polling the same job
KeepPolling(st) == st \in {QPL_STS_BEING_PROCESSED, QPL_STS_QUEUES_ARE_BUSY_ERR}

\* the engine finishes the descriptor of slot s
EngineComplete(s) ==
    /\ s \in DOMAIN job_c
    /\ job_c[s].st = "inflight"
    /\ LET r == job_c[s] IN
       \/ /\ r.op = "compress"
          /\ \E c \in CompressSizes(r.available_out) :
                /\ data' = WriteStream(data, r.next_out_ptr, r.next_in_ptr, r.available_in, c)
                /\ job_c' = [job_c EXCEPT ![s].st = "ok", ![s].total_out = c]
                /\ engine_total_out' = [engine_total_out EXCEPT ![r.next_in_ptr \div block_size] = c]
          /\ UNCHANGED <<out, faults>>
       \/ /\ r.op = "compress"
          /\ CompressSizes(r.available_out) = {}
          /\ job_c' = [job_c EXCEPT ![s].st = "err"]
          /\ UNCHANGED <<data, out, faults, engine_total_out>>
       \/ /\ r.op = "decompress"
          /\ HasStream(data, r.next_in_ptr, r.available_in)
          /\ LET t == data[r.next_in_ptr] IN
             IF t[2] <= r.available_out
             THEN /\ out' = WritePlain(out, r.next_out_ptr, t[1], t[2])
                  /\ job_c' = [job_c EXCEPT ![s].st = "ok", ![s].total_out = t[2]]
             ELSE /\ out' = out
                  /\ job_c' = [job_c EXCEPT ![s].st = "err"]
          /\ UNCHANGED <<data, faults, engine_total_out>>
       \/ /\ r.op = "decompress"
          /\ ~HasStream(data, r.next_in_ptr, r.available_in)
          /\ job_c' = [job_c EXCEPT ![s].st = "err"]
          /\ UNCHANGED <<data, out, faults, engine_total_out>>
    /\ UNCHANGED <<pc, args, hdr, job, compressed_size, decompressed_size,
                   clocals, dlocals, status, err_seen>>
    /\ UNCHANGED pool

\* the engine fails the descriptor of slot s with a hard error
EngineFault(s) ==
    /\ s \in DOMAIN job_c
    /\ job_c[s].st = "inflight"
    /\ faults < MaxFaults
    /\ faults' = faults + 1
    /\ job_c' = [job_c EXCEPT ![s].st = "err"]
    /\ UNCHANGED <<pc, args, bufs, job, compressed_size, decompressed_size,
                   clocals, dlocals, status, err_seen, engine_total_out>>
    /\ UNCHANGED pool

\* ---- compress ----------------------------------------------------------------
Init ==
    /\ pc = "c_start"
    /\ input_size \in 0..MaxS
    /\ block_size \in 1..MaxB
    /\ jobs_number \in 1..MaxN
    /\ capacity \in {HeaderOffset(input_size \div block_size) + d : d \in 0..MaxData}
    /\ hdr = [w \in 0..(input_size \div block_size + HeaderWords - 1) |-> UWord]
    /\ data = [a \in HeaderOffset(input_size \div block_size)..(capacity - 1) |-> U]
    /\ out = <<>>
    /\ job = IdleJob
    /\ job_c = [s \in 0..(jobs_number - 1) |-> IdleJob]
    /\ compressed_size = capacity
    /\ decompressed_size = 0
    /\ i = 0 /\ j = 0
    /\ next_to_copy_block_idx = 0 /\ next_to_copy_block = 0 /\ out_block_size = 0
    /\ next_to_queue_src_addr = 0 /\ next_to_copy_src_addr = 0 /\ next_to_copy_dst_addr = 0
    /\ total_compressed_size = 0
    /\ out_capacity = 0 /\ in_data = 0 /\ out_byte_ptr = 0
    /\ status_check_c = <<>>
    /\ status = [call |-> "none", slot |-> 0, status |-> QPL_STS_OK]
    /\ err_seen = "none"
    /\ engine_total_out = [k \in 0..(input_size \div block_size) |-> 0]
    /\ faults = 0
    /\ heap = {Envelope, VectorStorage} \cup Records(jobs_number)
    /\ ctx = "ctx"
    /\ inited = Records(jobs_number)
    /\ initialized = TRUE
    /\ fini_log = <<>>

last_to_copy_src_addr == blocks * block_size

\* mutant: every block is taken to be a full block
NextAvailableIn_full(queue_addr) == block_size

\* lines 173-174, 212-213
NextAvailableIn(queue_addr) ==
    IF queue_addr >= last_to_copy_src_addr THEN last_block_size ELSE block_size

\* compress, lines 128-153 and 161-182: the header prefix, then either the
\* single job or the first job of the fill loop is configured
CompressStart ==
    /\ pc = "c_start"
    /\ hdr' = [hdr EXCEPT ![0] = block_size, ![1] = last_block_size, ![2] = blocks]
    /\ IF input_size <= block_size
       THEN /\ job' = Configure(job, "compress", 0, input_size, header_offset, compressed_size)
            /\ pc' = "c_exec"
            /\ UNCHANGED <<job_c, clocals>>
       ELSE /\ out_block_size' = (compressed_size - header_offset) \div (blocks + 1)
            /\ i' = 0 /\ j' = 0
            /\ next_to_copy_block_idx' = 0 /\ next_to_copy_block' = 0
            /\ next_to_copy_src_addr' = 0
            /\ next_to_copy_dst_addr' = header_offset
            /\ total_compressed_size' = 0
            /\ job_c' = [job_c EXCEPT ![0] = Configure(@, "compress", 0, NextAvailableIn(0),
                                                        header_offset, out_block_size')]
            /\ next_to_queue_src_addr' = NextAvailableIn(0)
            /\ pc' = "c_fill_submit"
            /\ UNCHANGED job
    /\ UNCHANGED <<args, data, out, compressed_size, decompressed_size, dlocals,
                   status, err_seen, engine_total_out, faults>>
    /\ UNCHANGED pool

\* compress, lines 155-158: qpl_execute_job on the single job
CompressExecute ==
    /\ pc = "c_exec"
    /\ \/ \E c \in CompressSizes(job.available_out) :
             /\ Call("execute", -1, QPL_STS_OK)
             /\ job' = [job EXCEPT !.st = "ok", !.total_out = c]
             /\ IF job.next_out_ptr + c <= capacity
                THEN /\ data' = WriteStream(data, job.next_out_ptr, job.next_in_ptr,
                                            job.available_in, c)
                     /\ compressed_size' = c + header_offset
                     /\ pc' = "c_done"
                ELSE /\ pc' = "ub"       \* the engine wrote past the end of the buffer
                     /\ UNCHANGED <<data, compressed_size>>
             /\ engine_total_out' = [engine_total_out EXCEPT ![0] = c]
             /\ UNCHANGED faults
       \/ /\ faults < MaxFaults
          /\ Call("execute", -1, QPL_STS_ERR)
          /\ faults' = faults + 1
          /\ job' = [job EXCEPT !.st = "err"]
          /\ pc' = "c_failed"
          /\ UNCHANGED <<data, compressed_size, engine_total_out>>
    /\ UNCHANGED <<args, hdr, out, job_c, decompressed_size, clocals, dlocals>>
    /\ UNCHANGED pool

\* compress, lines 172-189: one qpl_submit_job of the fill loop; on Ok the loop
\* goes on to configure the next job or leaves for the refill loop
CompressFillSubmit ==
    /\ pc = "c_fill_submit"
    /\ \E st \in SubmitResults :
          /\ Call("submit", i, st)
          /\ Fault(st)
          /\ CASE RetrySubmit(st) ->
                    UNCHANGED <<pc, job_c, clocals, compressed_size>>
               [] CheckStatusFails(st) ->
                    /\ pc' = "c_failed"
                    /\ UNCHANGED <<job_c, clocals, compressed_size>>
               [] OTHER ->
                    /\ i' = i + 1
                    /\ IF i + 1 < blocks + 1 /\ i + 1 < jobs_number
                       THEN /\ job_c' = [job_c EXCEPT
                                   ![i].st = "inflight",
                                   ![i + 1] = Configure(@, "compress", next_to_queue_src_addr,
                                                 NextAvailableIn(next_to_queue_src_addr),
                                                 header_offset + (i + 1) * out_block_size,
                                                 out_block_size)]
                            /\ next_to_queue_src_addr' =
                                   next_to_queue_src_addr + NextAvailableIn(next_to_queue_src_addr)
                            /\ pc' = "c_fill_submit"
                       ELSE /\ job_c' = [job_c EXCEPT ![i].st = "inflight"]
                            /\ next_to_queue_src_addr' = next_to_queue_src_addr
                            /\ pc' = IF i + 1 < blocks + 1 THEN "c_refill_check" ELSE "c_drain_check"
                    /\ UNCHANGED <<j, next_to_copy_block_idx, next_to_copy_block, out_block_size,
                                   next_to_copy_src_addr, next_to_copy_dst_addr,
                                   total_compressed_size, compressed_size>>
    /\ UNCHANGED <<args, bufs, job, decompressed_size, dlocals, engine_total_out>>
    /\ UNCHANGED pool

\* the reassembly step of lines 202-209 / 250-257: block next_to_copy_block is
\* copied from its scratch window to the cursor and its size is recorded
\* mutant: the size is always taken from the first job
block_comp_size_first == job_c[0].total_out

block_comp_size == job_c[next_to_copy_block_idx].total_out

\* mutant: block k is given the scratch window of block k - 1
ScratchWindow_previous(k) == header_offset + (k - 1) * out_block_size

ScratchWindow(k) == header_offset + k * out_block_size

\* mutant: the cursor stays on its slot
NextCursor_stays(idx) == idx

\* next_to_copy_block_idx = ++next_to_copy_block_idx % jobs (lines 230, 259)
NextCursor(idx) == (idx + 1) % jobs_number

\* mutant: the table starts one word later
TableWord_next(k) == TableBase + k + 1

TableWord(k) == TableBase + k

\* mutant: the table word is written but the payload is not copied
CopyBlock_header_only ==
    /\ data' = data
    /\ hdr' = [hdr EXCEPT ![TableWord(next_to_copy_block)] = block_comp_size]
    /\ total_compressed_size' = total_compressed_size + block_comp_size
    /\ next_to_copy_dst_addr' = next_to_copy_dst_addr + block_comp_size
    /\ next_to_copy_src_addr' = next_to_copy_src_addr + block_size

CopyBlock ==
    /\ data' \in Memcpy(data, next_to_copy_dst_addr, ScratchWindow(next_to_copy_block),
                        block_comp_size)
    /\ hdr' = [hdr EXCEPT ![TableWord(next_to_copy_block)] = block_comp_size]
    /\ total_compressed_size' = total_compressed_size + block_comp_size
    /\ next_to_copy_dst_addr' = next_to_copy_dst_addr + block_comp_size
    /\ next_to_copy_src_addr' = next_to_copy_src_addr + block_size

\* compress, lines 192-197 and 234-239: poll the job under the cursor
CompressRefillCheck ==
    /\ pc = "c_refill_check"
    /\ LET st == CheckStatus(job_c[next_to_copy_block_idx]) IN
       /\ Call("check", next_to_copy_block_idx, st)
       /\ IF JobDone(st)
          THEN pc' = "c_refill_stats" /\ j' = 1
          ELSE IF KeepPolling(st)
          THEN UNCHANGED <<pc, j>>
          ELSE pc' = "c_failed" /\ j' = j
    /\ UNCHANGED <<args, bufs, job, job_c, compressed_size, decompressed_size, i,
                   next_to_copy_block_idx, next_to_copy_block, out_block_size,
                   next_to_queue_src_addr, next_to_copy_src_addr, next_to_copy_dst_addr,
                   total_compressed_size, dlocals, engine_total_out, faults>>
    /\ UNCHANGED pool

StatsLoopRuns == j < jobs_number \div 2 /\ j < blocks

\* compress, lines 199-200: one qpl_check_job of the stats loop; its status is
\* only added to a counter
CompressRefillStats ==
    /\ pc = "c_refill_stats"
    /\ StatsLoopRuns
    /\ Call("check", (next_to_copy_block_idx + j) % jobs_number,
            CheckStatus(job_c[(next_to_copy_block_idx + j) % jobs_number]))
    /\ j' = j + 1
    /\ UNCHANGED <<pc, args, bufs, job, job_c, compressed_size, decompressed_size, i,
                   next_to_copy_block_idx, next_to_copy_block, out_block_size,
                   next_to_queue_src_addr, next_to_copy_src_addr, next_to_copy_dst_addr,
                   total_compressed_size, dlocals, engine_total_out, faults>>
    /\ UNCHANGED pool

\* compress, lines 202-220: reassemble the completed block and configure the
\* freed job for block i
CompressRefillCopy ==
    /\ pc = "c_refill_stats"
    /\ ~StatsLoopRuns
    /\ CopyBlock
    /\ job_c' = [job_c EXCEPT ![next_to_copy_block_idx] =
                    Configure(@, "compress", next_to_queue_src_addr,
                              NextAvailableIn(next_to_queue_src_addr),
                              ScratchWindow(i), out_block_size)]
    /\ pc' = "c_refill_submit"
    /\ UNCHANGED <<args, out, job, compressed_size, decompressed_size, i, j,
                   next_to_copy_block_idx, next_to_copy_block, out_block_size,
                   next_to_queue_src_addr, dlocals, status, err_seen, engine_total_out, faults>>
    /\ UNCHANGED pool

\* compress, lines 222-232: one qpl_submit_job of the refill loop
CompressRefillSubmit ==
    /\ pc = "c_refill_submit"
    /\ \E st \in SubmitResults :
          /\ Call("submit", next_to_copy_block_idx, st)
          /\ Fault(st)
          /\ CASE RetrySubmit(st) ->
                    UNCHANGED <<pc, job_c, i, next_to_queue_src_addr, next_to_copy_block,
                                next_to_copy_block_idx>>
               [] CheckStatusFails(st) ->
                    /\ pc' = "c_failed"
                    /\ UNCHANGED <<job_c, i, next_to_queue_src_addr, next_to_copy_block,
                                   next_to_copy_block_idx>>
               [] OTHER ->
                    /\ job_c' = [job_c EXCEPT ![next_to_copy_block_idx].st = "inflight"]
                    /\ next_to_queue_src_addr' =
                           next_to_queue_src_addr + job_c[next_to_copy_block_idx].available_in
                    /\ next_to_copy_block' = next_to_copy_block + 1
                    /\ next_to_copy_block_idx' = NextCursor(next_to_copy_block_idx)
                    /\ i' = i + 1
                    /\ pc' = IF i + 1 < blocks + 1 THEN "c_refill_check" ELSE "c_drain_check"
    /\ UNCHANGED <<args, bufs, job, compressed_size, decompressed_size, j, out_block_size,
                   next_to_copy_src_addr, next_to_copy_dst_addr, total_compressed_size,
                   dlocals, engine_total_out>>
    /\ UNCHANGED pool

\* compress, lines 244-272: poll the job under the cursor, reassemble its block;
\* when the loop ends the frame size is stored
CompressDrainCheck ==
    /\ pc = "c_drain_check"
    /\ LET st == CheckStatus(job_c[next_to_copy_block_idx]) IN
       /\ Call("check", next_to_copy_block_idx, st)
       /\ IF JobDone(st)
          THEN /\ CopyBlock
               /\ next_to_copy_block' = next_to_copy_block + 1
               /\ next_to_copy_block_idx' = NextCursor(next_to_copy_block_idx)
               /\ IF next_to_copy_src_addr' <= last_to_copy_src_addr
                  THEN UNCHANGED <<pc, compressed_size>>
                  ELSE /\ compressed_size' = total_compressed_size' + header_offset
                       /\ pc' = "c_done"
          ELSE /\ pc' = IF KeepPolling(st) THEN pc ELSE "c_failed"
               /\ UNCHANGED <<hdr, data, compressed_size, next_to_copy_block,
                              next_to_copy_block_idx, next_to_copy_src_addr,
                              next_to_copy_dst_addr, total_compressed_size>>
    /\ UNCHANGED <<args, out, job, job_c, decompressed_size, i, j, out_block_size,
                   next_to_queue_src_addr, dlocals, engine_total_out, faults>>
    /\ UNCHANGED pool

\* ---- decompress -----------------------------------------------------------
\* the header fields as decompress reads them (lines 290-294)
d_block_size == hdr[0]
d_last_block_size == hdr[1]
d_blocks == hdr[2]
d_header_offset == (d_blocks + HeaderWords) * WordSize

\* mutant: the reader takes the table to start one word later
d_TableWord_next(k) == k + TableBase + 1

\* the header word decompress reads the size of block k from (lines 321, 355)
d_TableWord(k) == k + TableBase

\* the values a read of header word w can yield: the word, or anything when
\* it was never written (or lies past the header)
ReadWord(w) == IF w \notin DOMAIN hdr \/ hdr[w] = UWord THEN 0..MaxGarbage ELSE {hdr[w]}

\* mutant: every block, the last one too, is bounded by block_size
DAvailableOut_block_size(k) == d_block_size

DAvailableOut(k) == IF k = d_blocks THEN d_last_block_size ELSE d_block_size

BadBlockSize(block_compressed_size, available_out) == block_compressed_size > available_out

\* (blocks * block_size) + last_block_size, computed in 32 bits (lines 298, 398)
DeclaredSize == Add32(Mul32(d_blocks, d_block_size), d_last_block_size)

BadHeader == Gt32(DeclaredSize, decompressed_size')

\* lines 321-334 / 355-369: read the size of block k, validate it and configure
\* job s for it; FALSE selects the early return
ConfigureBlock(s, k, base, nin, nout, ok) ==
    \E bcs \in ReadWord(d_TableWord(k)) :
        IF BadBlockSize(bcs, DAvailableOut(k))
        THEN ok = FALSE /\ job_c' = base
        ELSE /\ ok = TRUE
             /\ job_c' = [base EXCEPT ![s] = Configure(@, "decompress", nin, bcs,
                                                      nout, DAvailableOut(k))]

\* decompress, lines 279-334: the call starts on the frame compress produced
DecompressStart ==
    /\ pc \in {"c_done", "d_start"}
    /\ \E cap \in input_size..(input_size + MaxSlack) :
          /\ out_capacity' = cap
          /\ decompressed_size' = cap
          /\ out' = [a \in 0..(cap - 1) |-> UWord]
    /\ i' = 0
    /\ out_byte_ptr' = 0
    /\ in_data' = d_header_offset
    /\ status_check_c' = [s \in DOMAIN job_c |-> QPL_STS_OK]
    /\ err_seen' = "none"
    /\ IF BadHeader
       THEN pc' = "d_failed" /\ UNCHANGED <<job, job_c>>
       ELSE IF d_blocks = 0
       THEN /\ job' = Configure(job, "decompress", d_header_offset, compressed_size,
                                0, decompressed_size')
            /\ pc' = "d_exec"
            /\ UNCHANGED job_c
       ELSE /\ \E ok \in BOOLEAN :
                 /\ ConfigureBlock(0, 0, job_c, d_header_offset, 0, ok)
                 /\ pc' = IF ok THEN "d_fill_submit" ELSE "d_failed"
            /\ UNCHANGED job
    /\ UNCHANGED <<args, hdr, data, compressed_size, j, next_to_copy_block_idx,
                   next_to_copy_block, out_block_size, next_to_queue_src_addr,
                   next_to_copy_src_addr, next_to_copy_dst_addr, total_compressed_size,
                   status, engine_total_out, faults>>
    /\ UNCHANGED pool

\* decompress, lines 311-314: qpl_execute_job on the single job
DecompressExecute ==
    /\ pc = "d_exec"
    /\ \/ /\ HasStream(data, job.next_in_ptr, job.available_in)
          /\ data[job.next_in_ptr][2] <= job.available_out
          /\ Call("execute", -1, QPL_STS_OK)
          /\ out' = WritePlain(out, job.next_out_ptr, data[job.next_in_ptr][1],
                               data[job.next_in_ptr][2])
          /\ job' = [job EXCEPT !.st = "ok", !.total_out = data[job.next_in_ptr][2]]
          /\ decompressed_size' = data[job.next_in_ptr][2]
          /\ pc' = "d_done"
          /\ UNCHANGED faults
       \/ /\ \/ ~HasStream(data, job.next_in_ptr, job.available_in)
             \/ data[job.next_in_ptr][2] > job.available_out
          /\ Call("execute", -1, QPL_STS_ERR)
          /\ job' = [job EXCEPT !.st = "err"]
          /\ pc' = "d_failed"
          /\ UNCHANGED <<out, decompressed_size, faults>>
       \/ /\ faults < MaxFaults
          /\ Call("execute", -1, QPL_STS_ERR)
          /\ faults' = faults + 1
          /\ job' = [job EXCEPT !.st = "err"]
          /\ pc' = "d_failed"
          /\ UNCHANGED <<out, decompressed_size>>
    /\ UNCHANGED <<args, hdr, data, job_c, compressed_size, clocals, dlocals,
                   engine_total_out>>
    /\ UNCHANGED pool

\* decompress, lines 319-344: one qpl_submit_job of the fill loop; on Ok the
\* cursors advance and the loop goes on to the next block
DecompressFillSubmit ==
    /\ pc = "d_fill_submit"
    /\ \E st \in SubmitResults :
          /\ Call("submit", i, st)
          /\ Fault(st)
          /\ CASE RetrySubmit(st) ->
                    UNCHANGED <<pc, job_c, i, in_data, out_byte_ptr>>
               [] CheckStatusFails(st) ->
                    /\ pc' = "d_failed"
                    /\ UNCHANGED <<job_c, i, in_data, out_byte_ptr>>
               [] OTHER ->
                    /\ in_data' = PtrAdd(in_data, job_c[i].available_in)
                    /\ out_byte_ptr' = PtrAdd(out_byte_ptr, job_c[i].available_out)
                    /\ i' = i + 1
                    /\ IF i + 1 < d_blocks + 1 /\ i + 1 < jobs_number
                       THEN \E ok \in BOOLEAN :
                               /\ ConfigureBlock(i + 1, i + 1,
                                                 [job_c EXCEPT ![i].st = "inflight"],
                                                 in_data', out_byte_ptr', ok)
                               /\ pc' = IF ok THEN "d_fill_submit" ELSE "d_failed"
                       ELSE /\ job_c' = [job_c EXCEPT ![i].st = "inflight"]
                            /\ pc' = IF i + 1 < d_blocks + 1 THEN "d_refill_check" ELSE "d_wait"
    /\ UNCHANGED <<args, bufs, job, compressed_size, decompressed_size, j,
                   next_to_copy_block_idx, next_to_copy_block, out_block_size,
                   next_to_queue_src_addr, next_to_copy_src_addr, next_to_copy_dst_addr,
                   total_compressed_size, out_capacity, status_check_c, engine_total_out>>
    /\ UNCHANGED pool

\* decompress, lines 346-369 and 382-387: poll job i % jobs; once it is done,
\* read and validate the size of block i and configure the job for it
DecompressRefillCheck ==
    /\ pc = "d_refill_check"
    /\ LET idx == i % jobs_number
           st == CheckStatus(job_c[idx]) IN
       /\ Call("check", idx, st)
       /\ IF JobDone(st)
          THEN \E ok \in BOOLEAN :
                  /\ ConfigureBlock(idx, i, job_c, in_data, out_byte_ptr, ok)
                  /\ pc' = IF ok THEN "d_refill_submit" ELSE "d_failed"
          ELSE /\ pc' = IF KeepPolling(st) THEN pc ELSE "d_failed"
               /\ UNCHANGED job_c
    /\ UNCHANGED <<args, bufs, job, compressed_size, decompressed_size, clocals,
                   dlocals, engine_total_out, faults>>
    /\ UNCHANGED pool

\* decompress, lines 371-380: one qpl_submit_job of the refill loop
DecompressRefillSubmit ==
    /\ pc = "d_refill_submit"
    /\ LET idx == i % jobs_number IN
       \E st \in SubmitResults :
          /\ Call("submit", idx, st)
          /\ Fault(st)
          /\ CASE RetrySubmit(st) ->
                    UNCHANGED <<pc, job_c, i, in_data, out_byte_ptr>>
               [] CheckStatusFails(st) ->
                    /\ pc' = "d_failed"
                    /\ UNCHANGED <<job_c, i, in_data, out_byte_ptr>>
               [] OTHER ->
                    /\ job_c' = [job_c EXCEPT ![idx].st = "inflight"]
                    /\ in_data' = PtrAdd(in_data, job_c[idx].available_in)
                    /\ out_byte_ptr' = PtrAdd(out_byte_ptr, job_c[idx].available_out)
                    /\ i' = i + 1
                    /\ pc' = IF i + 1 < d_blocks + 1 THEN "d_refill_check" ELSE "d_wait"
    /\ UNCHANGED <<args, bufs, job, compressed_size, decompressed_size, j,
                   next_to_copy_block_idx, next_to_copy_block, out_block_size,
                   next_to_queue_src_addr, next_to_copy_src_addr, next_to_copy_dst_addr,
                   total_compressed_size, out_capacity, status_check_c, engine_total_out>>
    /\ UNCHANGED pool

\* whether the one-minute deadline has passed at the end of a polling round: a
\* late engine counts as an engine fault
Elapsed == {FALSE} \cup (IF faults < MaxFaults THEN {TRUE} ELSE {})

\* mutant: the barrier is satisfied by one terminal job
AllJobsDone_any(v) ==
    \E s \in DOMAIN v : v[s] \notin {QPL_STS_BEING_PROCESSED, QPL_STS_QUEUES_ARE_BUSY_ERR}

\* all_jobs_done after a polling round that stored the statuses v (lines 111-117)
AllJobsDone(v) ==
    \A s \in DOMAIN v : v[s] \notin {QPL_STS_BEING_PROCESSED, QPL_STS_QUEUES_ARE_BUSY_ERR}

\* wait_for_all_jobs, lines 107-123, and decompress, lines 391-398: one polling
\* round over every job; the deadline test comes before the loop condition
\* mutant: the declared size is stored also when the barrier timed out
SizeAfterWait_always(elapsed, all_jobs_done) ==
    IF elapsed \/ all_jobs_done THEN ToNat(DeclaredSize) ELSE decompressed_size

\* lines 393-398: *decompressed_size after a round of the barrier: the declared
\* size once the barrier returned true, untouched otherwise
SizeAfterWait(elapsed, all_jobs_done) ==
    IF ~elapsed /\ all_jobs_done THEN ToNat(DeclaredSize) ELSE decompressed_size

WaitForAllJobs ==
    /\ pc = "d_wait"
    /\ status_check_c' = [s \in DOMAIN job_c |-> CheckStatus(job_c[s])]
    /\ Call("check", jobs_number - 1, CheckStatus(job_c[jobs_number - 1]))
    /\ LET all_jobs_done == AllJobsDone(status_check_c')
       IN \E elapsed \in Elapsed :
             /\ decompressed_size' = SizeAfterWait(elapsed, all_jobs_done)
             /\ IF elapsed
                THEN /\ pc' = "d_failed"
                     /\ faults' = faults + 1
                ELSE IF all_jobs_done
                THEN /\ pc' = "d_done"
                     /\ UNCHANGED faults
                ELSE UNCHANGED <<pc, faults>>
    /\ UNCHANGED <<args, bufs, job, job_c, compressed_size, clocals, out_capacity,
                   in_data, out_byte_ptr, engine_total_out>>
    /\ UNCHANGED pool

\* ---- context life cycle ---------------------------------------------------------
\* the state before allocate_qpl_context(jobs_number) is called
InitAlloc ==
    /\ pc = "a_start"
    /\ jobs_number \in 1..MaxN
    /\ input_size = 0 /\ block_size = 1 /\ capacity = 0
    /\ hdr = <<>> /\ data = <<>> /\ out = <<>>
    /\ job = IdleJob
    /\ job_c = [s \in 0..(jobs_number - 1) |-> IdleJob]
    /\ compressed_size = 0
    /\ decompressed_size = 0
    /\ i = 0 /\ j = 0
    /\ next_to_copy_block_idx = 0 /\ next_to_copy_block = 0 /\ out_block_size = 0
    /\ next_to_queue_src_addr = 0 /\ next_to_copy_src_addr = 0 /\ next_to_copy_dst_addr = 0
    /\ total_compressed_size = 0
    /\ out_capacity = 0 /\ in_data = 0 /\ out_byte_ptr = 0
    /\ status_check_c = <<>>
    /\ status = [call |-> "none", slot |-> 0, status |-> QPL_STS_OK]
    /\ err_seen = "none"
    /\ engine_total_out = [k \in 0..0 |-> 0]
    /\ faults = 0
    /\ heap = {}
    /\ ctx = "unset"
    /\ inited = {}
    /\ initialized = FALSE
    /\ fini_log = <<>>

\* allocate_qpl_context, lines 34-37: the envelope
AllocateCtx ==
    /\ pc = "a_start"
    /\ \/ heap' = heap \cup {Envelope} /\ pc' = "a_size" /\ ctx' = ctx
       \/ heap' = heap /\ pc' = "a_done" /\ ctx' = "NULL"
    /\ UNCHANGED <<i, j, inited, initialized, work>>
    /\ UNCHANGED fini_log

\* allocate_qpl_context, lines 39-46: qpl_get_job_size
AllocateJobSize ==
    /\ pc = "a_size"
    /\ \/ heap' = heap /\ pc' = "a_job" /\ ctx' = ctx
       \/ heap' = heap \ {Envelope} /\ pc' = "a_done" /\ ctx' = "NULL"
    /\ UNCHANGED <<i, j, inited, initialized, work>>
    /\ UNCHANGED fini_log

\* allocate_qpl_context, lines 48-52: the record of ctx->job
AllocateJob ==
    /\ pc = "a_job"
    /\ \/ heap' = heap \cup {SingleJob} /\ pc' = "a_vector" /\ ctx' = ctx
       \/ heap' = heap \ {Envelope} /\ pc' = "a_done" /\ ctx' = "NULL"
    /\ UNCHANGED <<i, j, inited, initialized, work>>
    /\ UNCHANGED fini_log

\* allocate_qpl_context, line 54: ctx->job_c is assigned a vector of
\* jobs_number null pointers.  The envelope came from malloc, so the vector that
\* is assigned to was never constructed: the assignment releases whatever its
\* bytes happen to hold, which is undefined; and the storage of the new vector
\* may fail to be allocated, which throws.
AllocateVector ==
    /\ pc = "a_vector"
    /\ \/ heap' = heap \cup {VectorStorage} /\ pc' = "a_loop" /\ ctx' = ctx
       \/ heap' = heap /\ pc' = "ub" /\ ctx' = ctx
       \/ heap' = heap /\ pc' = "a_done" /\ ctx' = "bad_alloc"
    /\ i' = 0
    /\ UNCHANGED <<j, inited, initialized, work>>
    /\ UNCHANGED fini_log

\* allocate_qpl_context, lines 55-57 and 66: the record of ctx->job_c[i]
AllocateJobC ==
    /\ pc = "a_loop"
    /\ IF i < jobs_number
       THEN \/ heap' = heap \cup {Rec(i)} /\ i' = i + 1 /\ UNCHANGED <<pc, j, ctx>>
            \/ pc' = "a_unwind" /\ j' = 0 /\ UNCHANGED <<heap, i, ctx>>
       ELSE pc' = "a_done" /\ ctx' = "ctx" /\ UNCHANGED <<heap, i, j>>
    /\ UNCHANGED <<inited, initialized, work>>
    /\ UNCHANGED fini_log

\* mutant: the unwinding forgets the record of ctx->job
AllocateUnwind_keeps_job ==
    /\ pc = "a_unwind"
    /\ IF j < i
       THEN heap' = heap \ {Rec(j)} /\ j' = j + 1 /\ UNCHANGED <<pc, ctx>>
       ELSE heap' = heap \ {Envelope} /\ pc' = "a_done" /\ ctx' = "NULL" /\ j' = j
    /\ UNCHANGED <<i, inited, initialized, work>>
    /\ UNCHANGED fini_log

\* allocate_qpl_context, lines 58-63: a record could not be allocated
AllocateUnwind ==
    /\ pc = "a_unwind"
    /\ IF j < i
       THEN heap' = heap \ {Rec(j)} /\ j' = j + 1 /\ UNCHANGED <<pc, ctx>>
       ELSE /\ heap' = heap \ {SingleJob, Envelope}
            /\ pc' = "a_done" /\ ctx' = "NULL" /\ j' = j
    /\ UNCHANGED <<i, inited, initialized, work>>
    /\ UNCHANGED fini_log

\* initialize_qpl_context, lines 70-75: qpl_init_job on ctx->job
InitializeJob ==
    /\ pc = "a_done" /\ ctx = "ctx"
    /\ \/ inited' = inited \cup {SingleJob} /\ pc' = "n_loop" /\ UNCHANGED initialized
       \/ inited' = inited /\ pc' = "n_done" /\ initialized' = FALSE
    /\ i' = 0
    /\ UNCHANGED <<j, heap, ctx, work>>
    /\ UNCHANGED fini_log

\* mutant: a failed qpl_init_job does not stop the loop
InitializeJobC_goes_on ==
    /\ pc = "n_loop"
    /\ IF i < jobs_number
       THEN \/ inited' = inited \cup {Rec(i)} /\ i' = i + 1 /\ UNCHANGED <<pc, initialized>>
            \/ inited' = inited /\ i' = i + 1 /\ UNCHANGED <<pc, initialized>>
       ELSE pc' = "n_done" /\ initialized' = TRUE /\ UNCHANGED <<inited, i>>
    /\ UNCHANGED <<j, heap, ctx, work>>
    /\ UNCHANGED fini_log

\* initialize_qpl_context, lines 77-84: qpl_init_job on ctx->job_c[i]
InitializeJobC ==
    /\ pc = "n_loop"
    /\ IF i < jobs_number
       THEN \/ inited' = inited \cup {Rec(i)} /\ i' = i + 1 /\ UNCHANGED <<pc, initialized>>
            \/ pc' = "n_done" /\ initialized' = FALSE /\ UNCHANGED <<inited, i>>
       ELSE pc' = "n_done" /\ initialized' = TRUE /\ UNCHANGED <<inited, i>>
    /\ UNCHANGED <<j, heap, ctx, work>>
    /\ UNCHANGED fini_log

\* free_qpl_context, lines 88-91: the null test and qpl_fini_job on ctx->job
FreeStart ==
    /\ \/ pc = "a_done" /\ ctx \in {"ctx", "NULL"}
       \/ pc = "n_done"
    /\ IF ctx = "NULL"
       THEN pc' = "f_done" /\ UNCHANGED <<inited, fini_log>>
       ELSE IF initialized
       THEN /\ pc' = "f_fini"
            /\ inited' = inited \ {SingleJob}
            /\ fini_log' = Append(fini_log, SingleJob)
       ELSE pc' = "f_free" /\ UNCHANGED <<inited, fini_log>>
    /\ i' = 0
    /\ UNCHANGED <<j, heap, ctx, initialized, work>>

\* mutant: the finalizer is called on the first slot only
FreeFini_first_only ==
    /\ pc = "f_fini"
    /\ IF i < 1
       THEN /\ inited' = inited \ {Rec(i)} /\ i' = i + 1 /\ pc' = pc
            /\ fini_log' = Append(fini_log, Rec(i))
       ELSE inited' = inited /\ i' = 0 /\ pc' = "f_free" /\ fini_log' = fini_log
    /\ UNCHANGED <<j, heap, ctx, initialized, work>>

\* free_qpl_context, lines 92-94: qpl_fini_job on ctx->job_c[i]
FreeFini ==
    /\ pc = "f_fini"
    /\ IF i < jobs_number
       THEN /\ inited' = inited \ {Rec(i)} /\ i' = i + 1 /\ pc' = pc
            /\ fini_log' = Append(fini_log, Rec(i))
       ELSE inited' = inited /\ i' = 0 /\ pc' = "f_free" /\ fini_log' = fini_log
    /\ UNCHANGED <<j, heap, ctx, initialized, work>>

\* free_qpl_context, lines 97-100: the records are released
FreeRecords ==
    /\ pc = "f_free"
    /\ IF i < jobs_number
       THEN heap' = heap \ {Rec(i)} /\ i' = i + 1 /\ pc' = pc
       ELSE heap' = heap \ {SingleJob} /\ i' = i /\ pc' = "f_done"
    /\ UNCHANGED <<j, ctx, inited, initialized, work>>
    /\ UNCHANGED fini_log

\* ---- decompress of a crafted frame --------------------------------------------
\* the values a crafted header field takes
CraftedWords == (0..MaxCraft) \cup {INT_MAX}

\* the payload of a crafted frame: one-byte streams, stream k holding byte k of
\* the plaintext
CraftedPayload(at) == [a \in at..(at + MaxCraft) |-> <<a - at, 1, 1, 0>>]

\* the state in which decompress is called on a frame that compress did not
\* write: any header, on a context whose jobs are idle
InitCrafted ==
    /\ pc = "d_start"
    /\ input_size \in 0..MaxCraft
    /\ block_size = 1
    /\ jobs_number \in 1..MaxCraftJobs
    /\ hdr \in {h \in [0..(TableBase + MaxCraft) -> CraftedWords] :
                  /\ h[1] # INT_MAX /\ h[2] # INT_MAX
                  /\ \A k \in 0..MaxCraft : h[TableBase + k] # INT_MAX}
    /\ data = CraftedPayload(HeaderOffset(hdr[2]))
    /\ capacity = HeaderOffset(hdr[2]) + MaxCraft + 1
    /\ compressed_size = capacity
    /\ out = <<>>
    /\ job = IdleJob
    /\ job_c = [s \in 0..(jobs_number - 1) |-> IdleJob]
    /\ decompressed_size = 0
    /\ i = 0 /\ j = 0
    /\ next_to_copy_block_idx = 0 /\ next_to_copy_block = 0 /\ out_block_size = 0
    /\ next_to_queue_src_addr = 0 /\ next_to_copy_src_addr = 0 /\ next_to_copy_dst_addr = 0
    /\ total_compressed_size = 0
    /\ out_capacity = 0 /\ in_data = 0 /\ out_byte_ptr = 0
    /\ status_check_c = <<>>
    /\ status = [call |-> "none", slot |-> 0, status |-> QPL_STS_OK]
    /\ err_seen = "none"
    /\ engine_total_out = [k \in 0..0 |-> 0]
    /\ faults = 0
    /\ heap = {Envelope, VectorStorage} \cup Records(jobs_number)
    /\ ctx = "ctx"
    /\ inited = Records(jobs_number)
    /\ initialized = TRUE
    /\ fini_log = <<>>

\* ---- the engine's test of repeated polls ----------------------------------------
\* repetitive_check.cpp: one job, a CRC64 over source = 0, 1, ..., source_size-1,
\* polled before the submit, until completion, and MaxRepeat times after it; the
\* test `check` polls with qpl_check_job, the test `wait` with qpl_wait_job.
TestKinds == {"check", "wait"}
TestPc(kind, at) == (IF kind = "check" THEN "tc_" ELSE "tw_") \o at

\* the value of job->crc64 for the input window [src, src + len)
Crc64(src, len) == <<"crc64", src, len>>

\* lines 48-64 / 96-112: the job is initialised and configured
InitEngine ==
    /\ pc \in {TestPc(kind, "start") : kind \in TestKinds}
    /\ input_size \in 1..MaxS
    /\ block_size = input_size
    /\ jobs_number = 1
    /\ job_c = [s \in 0..0 |-> Configure(IdleJob, "crc64", 0, input_size, 0, 0)]
    /\ job = IdleJob
    /\ capacity = 0
    /\ hdr = <<>> /\ data = <<>> /\ out = <<>>
    /\ compressed_size = 0
    /\ decompressed_size = 0
    /\ i = 0 /\ j = 0
    /\ next_to_copy_block_idx = 0 /\ next_to_copy_block = 0 /\ out_block_size = 0
    /\ next_to_queue_src_addr = 0 /\ next_to_copy_src_addr = 0 /\ next_to_copy_dst_addr = 0
    /\ total_compressed_size = 0
    /\ out_capacity = 0 /\ in_data = 0 /\ out_byte_ptr = 0
    /\ status_check_c = <<>>
    /\ status = [call |-> "none", slot |-> 0, status |-> QPL_STS_OK]
    /\ err_seen = "none"
    /\ engine_total_out = [k \in 0..0 |-> 0]
    /\ faults = 0
    /\ heap = {Rec(0)}
    /\ ctx = "unset"
    /\ inited = {Rec(0)}
    /\ initialized = TRUE
    /\ fini_log = <<>>

\* what a step of the test leaves alone
test_frame == <<args, bufs, job, compressed_size, decompressed_size, j,
                next_to_copy_block_idx, next_to_copy_block, out_block_size,
                next_to_queue_src_addr, next_to_copy_src_addr, next_to_copy_dst_addr,
                total_compressed_size, dlocals, engine_total_out, pool>>

\* qpl_check_job / qpl_wait_job on the job of the test; qpl_wait_job returns only
\* when the job is no longer being processed
TestPoll(kind) ==
    /\ kind = "wait" => job_c[0].st # "inflight"
    /\ Call(kind, 0, CheckStatus(job_c[0]))

\* line 67 / 115: ASSERT_EQ(QPL_STS_JOB_NOT_SUBMITTED, poll before the submit)
TestBeforeSubmit(kind) ==
    /\ pc = TestPc(kind, "start")
    /\ TestPoll(kind)
    /\ pc' = IF status'.status = QPL_STS_JOB_NOT_SUBMITTED
             THEN TestPc(kind, "submit") ELSE TestPc(kind, "assert_before")
    /\ UNCHANGED <<job_c, i, faults, test_frame>>

\* line 70 / 118: ASSERT_EQ(QPL_STS_OK, qpl_submit_job(job))
TestSubmit(kind) ==
    /\ pc = TestPc(kind, "submit")
    /\ \E st \in SubmitResults :
          /\ Call("submit", 0, st)
          /\ Fault(st)
          /\ IF st = QPL_STS_OK
             THEN /\ job_c' = [job_c EXCEPT ![0].st = "inflight"]
                  /\ pc' = TestPc(kind, "poll")
             ELSE /\ job_c' = job_c
                  /\ pc' = TestPc(kind, "assert_submit")
    /\ UNCHANGED <<i, test_frame>>

\* line 73: while (QPL_STS_BEING_PROCESSED == qpl_check_job(job));
TestPollLoop ==
    /\ pc = "tc_poll"
    /\ TestPoll("check")
    /\ pc' = IF status'.status = QPL_STS_BEING_PROCESSED THEN pc ELSE "tc_result"
    /\ UNCHANGED <<job_c, i, faults, test_frame>>

\* lines 76-77 / 119-120: ASSERT_EQ(QPL_STS_OK, poll) and the result is the
\* reference CRC
TestResult(kind) ==
    /\ pc = IF kind = "check" THEN "tc_result" ELSE "tw_poll"
    /\ TestPoll(kind)
    /\ pc' = IF status'.status = QPL_STS_OK /\ job_c[0].crc64 = Crc64(0, input_size)
             THEN TestPc(kind, "repeat") ELSE TestPc(kind, "assert_result")
    /\ i' = 0
    /\ UNCHANGED <<job_c, faults, test_frame>>

\* lines 81-84 / 124-127: the poll is repeated, status and result stay
TestRepeat(kind) ==
    /\ pc = TestPc(kind, "repeat")
    /\ IF i < MaxRepeat
       THEN /\ TestPoll(kind)
            /\ IF status'.status = QPL_STS_OK /\ job_c[0].crc64 = Crc64(0, input_size)
               THEN pc' = pc /\ i' = i + 1
               ELSE pc' = TestPc(kind, "assert_repeat") /\ i' = i
       ELSE pc' = TestPc(kind, "done") /\ UNCHANGED <<i, status, err_seen>>
    /\ UNCHANGED <<job_c, faults, test_frame>>

\* the engine finishes the CRC64 descriptor
EngineCompleteCrc ==
    /\ job_c[0].st = "inflight"
    /\ job_c[0].op = "crc64"
    /\ job_c' = [job_c EXCEPT ![0].st = "ok",
                              ![0].crc64 = Crc64(job_c[0].next_in_ptr, job_c[0].available_in)]
    /\ UNCHANGED <<pc, i, status, err_seen, faults, test_frame>>

\* ---- properties ----------------------------------------------------------------
CompressPcs == {"c_exec", "c_fill_submit", "c_refill_check", "c_refill_stats",
                "c_refill_submit", "c_drain_check"}
CompressReturned == {"c_done", "c_failed"}
DecompressPcs == {"d_exec", "d_fill_submit", "d_refill_check", "d_refill_submit", "d_wait"}
DecompressReturned == {"d_done", "d_failed"}
SubmitPcs == {"c_fill_submit", "c_refill_submit", "d_fill_submit", "d_refill_submit"}
MultiBlock == input_size > block_size

\* length of the input window of block k
BlockLen(k) == IF k = input_size \div block_size THEN input_size % block_size ELSE block_size

RECURSIVE EngineSum(_)
EngineSum(n) == IF n = 0 THEN 0 ELSE engine_total_out[n - 1] + EngineSum(n - 1)

RECURSIVE TableSum(_)
TableSum(n) == IF n = 0 THEN 0 ELSE hdr[3 + n - 1] + TableSum(n - 1)

\* C1 (as claimed): whenever compress has succeeded and the engine injects no
\* fault, decompress of the frame into a buffer of capacity >= input_size
\* succeeds, reports input_size and yields the input bytes.
C1_RoundTrip ==
    (pc \in DecompressReturned /\ faults = 0) =>
        /\ pc = "d_done"
        /\ decompressed_size = input_size
        /\ \A a \in 0..(input_size - 1) : out[a] = a

\* C2 (as claimed): after a successful multi-block compress the payload is the
\* concatenation, in block-index order, of the streams the engine produced:
\* block k occupies [header_offset + sum of sizes of blocks < k, + size_k) and
\* holds exactly the engine's bytes for block k.
C2_PayloadInBlockOrder ==
    (pc = "c_done" /\ MultiBlock) =>
        \A k \in 0..(input_size \div block_size) :
            \A t \in 0..(engine_total_out[k] - 1) :
                Byte(data, (input_size \div block_size + 4) * 4 + EngineSum(k) + t)
                    = <<k * block_size, BlockLen(k), engine_total_out[k], t>>

\* C3 (as claimed): for input_size > block_size the header word at byte 8 is
\* T = floor(S/B) + (1 if S mod B > 0 else 0) and word 1 is S mod B.
C3_DeclaresTotalBlocks ==
    (pc # "c_start" /\ MultiBlock) =>
        /\ hdr[2] = input_size \div block_size + (IF input_size % block_size > 0 THEN 1 ELSE 0)
        /\ hdr[1] = input_size % block_size

\* C3 (amended): for input_size > block_size the header word at byte 8 is the
\* number of full blocks floor(S/B) and word 1 is S mod B, so that
\* blocks * block_size + last_block_size = S.
C3_DeclaresFullBlocks ==
    (pc # "c_start" /\ MultiBlock) =>
        /\ hdr[2] = input_size \div block_size
        /\ hdr[1] = input_size % block_size
        /\ hdr[2] * hdr[0] + hdr[1] = input_size

C3_Witness ==
    pc = "c_done" /\ input_size = block_size + 1 /\ block_size > 1 /\ hdr[2] = 1 /\ hdr[1] = 1

\* C4 (as claimed): for input_size <= block_size compress takes the single
\* job and the header declares blocks = 0, so decompress of that frame never
\* enters the multi-block path.
C4_SinglePathDeclaresZero ==
    (input_size <= block_size /\ pc # "c_start") =>
        /\ pc \notin (CompressPcs \ {"c_exec"})
        /\ hdr[2] = 0
        /\ pc \notin (DecompressPcs \ {"d_exec"})

\* C5: after a successful multi-block compress *compressed_size is
\* header_offset plus the sum of the table entries, and every block of the
\* call has its own table entry, holding the size the engine reported for it.
C5_SizeIsHeaderPlusTable ==
    (pc = "c_done" /\ MultiBlock) =>
        /\ \A k \in 0..(input_size \div block_size) :
              hdr[3 + k] # UWord /\ hdr[3 + k] = engine_total_out[k]
        /\ compressed_size = (input_size \div block_size + 4) * 4
                                 + TableSum(input_size \div block_size + 1)

C5_Witness ==
    /\ pc = "c_done" /\ input_size \div block_size >= 2
    /\ \E k \in 1..(input_size \div block_size) : hdr[3 + k] # hdr[3]

C7_ReservedWordZero ==
    pc = "c_done" =>
        /\ hdr[3] = 0
        /\ MultiBlock => hdr[4] = engine_total_out[0]

\* C7 (amended): no header word is reserved: the table starts at the fourth
\* word (byte offset 12), which holds the compressed size of block 0 in a
\* multi-block frame and is left unwritten in a single-job frame.
C7_TableStartsAtWord3 ==
    pc = "c_done" =>
        IF MultiBlock THEN hdr[3] = engine_total_out[0] /\ hdr[3] >= 1
        ELSE hdr[3] = UWord

C7_Witness == pc = "c_done" /\ MultiBlock /\ hdr[3] = 2 /\ hdr[4] = 1

\* C8 (as claimed): no header word is written while compress is still at work
\* on the payload.
C8_HeaderWrittenLast ==
    (\E w \in DOMAIN hdr : hdr[w] # UWord) => pc \notin CompressPcs

\* C8 (amended): the header is written first and piecewise: block_size,
\* last_block_size and blocks are in the header before the first engine call,
\* and the table word of block k is written only once the payload of blocks
\* 0..k has been copied up to the cursor, in index order.
C8_TableWordAfterItsBlock ==
    /\ pc # "c_start" => hdr[0] # UWord /\ hdr[1] # UWord /\ hdr[2] # UWord
    /\ pc = "c_start" => job.st = "idle" /\ \A s \in DOMAIN job_c : job_c[s].st = "idle"
    /\ (MultiBlock /\ pc \in CompressPcs) =>
          \A k \in 0..(input_size \div block_size) :
              hdr[3 + k] # UWord =>
                  /\ \A m \in 0..k : hdr[3 + m] # UWord
                  /\ next_to_copy_dst_addr >= header_offset + TableSum(k + 1)
                  /\ \A a \in header_offset..(header_offset + TableSum(k + 1) - 1) :
                        Byte(data, a) # U

C8_Witness ==
    /\ pc = "c_drain_check" /\ next_to_copy_block = 2
    /\ hdr[4] # UWord /\ hdr[5] = UWord /\ hdr[3] < out_block_size

\* a step of the host thread that called qpl_submit_job
\* the slot a submit loop is working on
SubmitSlot ==
    CASE pc = "c_fill_submit" -> i
      [] pc = "d_fill_submit" -> i
      [] pc = "c_refill_submit" -> next_to_copy_block_idx
      [] OTHER -> i % jobs_number

\* a step of the host thread that called qpl_submit_job (an engine step leaves
\* the last status, the position and the job under submission alone)
SubmitStep ==
    /\ pc \in SubmitPcs
    /\ (status' # status \/ pc' # pc \/ job_c'[SubmitSlot] # job_c[SubmitSlot])

\* C9: a submit that returns QueuesBusy leaves the call in the same retry loop,
\* on the same slot with the same fields and the same block cursors; a retry
\* loop is left only with Ok (the job is then in flight) or with a hard error
\* (the call aborts).
C9_BusyIsRetried ==
    [][ /\ (status'.call = "submit" /\ status'.status = QPL_STS_QUEUES_ARE_BUSY_ERR) =>
              /\ pc' = pc /\ pc \in SubmitPcs
              /\ status'.slot = SubmitSlot
              /\ job_c'[SubmitSlot] = job_c[SubmitSlot]
              /\ <<i, next_to_queue_src_addr, in_data, out_byte_ptr>>'
                    = <<i, next_to_queue_src_addr, in_data, out_byte_ptr>>
        /\ SubmitStep =>
              /\ status'.call = "submit" /\ status'.slot = SubmitSlot
              /\ \/ status'.status = QPL_STS_QUEUES_ARE_BUSY_ERR
                 \/ status'.status = QPL_STS_OK /\ job_c'[SubmitSlot].st = "inflight"
                 \/ IsHard(status'.status) /\ pc' \in {"c_failed", "d_failed"}
      ]_vars

C9_Witness ==
    /\ pc = "c_refill_submit"
    /\ status = [call |-> "submit", slot |-> next_to_copy_block_idx,
                 status |-> QPL_STS_QUEUES_ARE_BUSY_ERR]

\* C10 (as claimed): once an engine call of compress has returned a hard
\* status, compress has returned, *compressed_size has its pre-call value and
\* no further submit or check was issued.
C10_HardErrorAbortsCompress ==
    (pc \in (CompressPcs \cup CompressReturned) /\ err_seen # "none") =>
        /\ err_seen = "seen"
        /\ pc = "c_failed"
        /\ compressed_size = capacity

\* C11 (as claimed): a decompress in which the descriptor of some block ended
\* in a hard error has failed and has left *decompressed_size at its pre-call
\* value.
C11_HardErrorFailsDecompress ==
    (/\ pc \in DecompressReturned
     /\ \E s \in DOMAIN job_c : job_c[s].op = "decompress" /\ job_c[s].st = "err") =>
        /\ pc = "d_failed"
        /\ decompressed_size = out_capacity

\* C12 (as claimed): whenever compress or decompress has returned, no slot of
\* the context is still owned by the engine.
C12_NoSlotOwnedAtReturn ==
    pc \in (CompressReturned \cup DecompressReturned) =>
        \A s \in DOMAIN job_c : job_c[s].st # "inflight"

\* the declared plaintext size, as an unbounded integer, exceeds cap
DeclaredExceeds(cap) ==
    \/ hdr[1] > cap
    \/ hdr[2] > 0 /\ hdr[0] > (cap - hdr[1]) \div hdr[2]

\* C13 (as claimed): decompress rejects, before any engine call and without
\* touching *decompressed_size, every frame whose header declares, in unbounded
\* integers, blocks * block_size + last_block_size > the output capacity.
C13_RejectsOversizedHeader ==
    (pc # "d_start" /\ DeclaredExceeds(out_capacity)) =>
        /\ pc = "d_failed"
        /\ status.call = "none"
        /\ decompressed_size = out_capacity

\* C14 (as claimed): decompress rejects, before any engine call, every frame
\* whose header declares block_size = 0.
C14_RejectsZeroBlockSize ==
    (pc # "d_start" /\ hdr[0] = 0) =>
        /\ pc = "d_failed"
        /\ status.call = "none"

\* the blocks of a multi-block frame whose table entry exceeds bound(k)
Oversized(bound(_)) ==
    {k \in 0..hdr[2] : TableBase + k \in DOMAIN hdr /\ hdr[TableBase + k] > bound(k)}

\* decompress has not got past block k, has not submitted it, has not
\* succeeded, and a failed call has left *decompressed_size alone
RejectedAt(k) ==
    /\ i <= k
    /\ pc \in {"d_fill_submit", "d_refill_submit"} => i # k
    /\ pc # "d_done"
    /\ pc = "d_failed" => decompressed_size = out_capacity

DeclaredBlockSize(k) == hdr[0]
DeclaredPlainSize(k) == IF k = hdr[2] THEN hdr[1] ELSE hdr[0]

C16_OutputTooSmallRejected ==
    (/\ MultiBlock /\ pc \in (CompressPcs \cup CompressReturned)
     /\ (capacity - HeaderOffset(input_size \div block_size))
            \div (input_size \div block_size + 1) = 0) =>
        /\ pc \in CompressReturned => pc = "c_failed"
        /\ status.call = "none"
        /\ \A s \in DOMAIN job_c : job_c[s].st = "idle"

\* C17 (as claimed): a successful multi-block compress has submitted
\* T = floor(S/B) + (1 if S mod B > 0 else 0) descriptors, and no descriptor
\* with an empty input window is ever in flight.
C17_SubmitsTotalBlocks ==
    /\ (pc = "c_done" /\ MultiBlock) =>
           i = input_size \div block_size + (IF input_size % block_size > 0 THEN 1 ELSE 0)
    /\ pc \in CompressPcs =>
           \A s \in DOMAIN job_c :
               (job_c[s].op = "compress" /\ job_c[s].st = "inflight") =>
                   job_c[s].available_in > 0

\* C18: when the barrier has returned success, the status vector holds the
\* statuses of its last polling round, one per slot, and every one of them is
\* terminal (neither BeingProcessed nor QueuesBusy).
C18_SuccessMeansAllTerminal ==
    (pc = "d_done" /\ hdr[2] # 0) =>
        /\ DOMAIN status_check_c = 0..(jobs_number - 1)
        /\ \A s \in DOMAIN job_c :
              /\ status_check_c[s] = CheckStatus(job_c[s])
              /\ status_check_c[s] # QPL_STS_BEING_PROCESSED
              /\ status_check_c[s] # QPL_STS_QUEUES_ARE_BUSY_ERR

C18_Witness ==
    /\ pc = "d_done" /\ hdr[2] # 0 /\ jobs_number >= 3
    /\ status.call = "check"
    /\ \E s \in DOMAIN job_c : status_check_c[s] = QPL_STS_OK
    /\ \E s \in DOMAIN job_c : status_check_c[s] = QPL_STS_JOB_NOT_SUBMITTED

\* C19 (as claimed): the barrier returns Timeout only if some slot was still
\* non-terminal in its last polling round.
C19_TimeoutOnlyIfPending ==
    [][(pc = "d_wait" /\ pc' = "d_failed") =>
          \E s \in DOMAIN job_c :
              status_check_c'[s] \in {QPL_STS_BEING_PROCESSED, QPL_STS_QUEUES_ARE_BUSY_ERR}]_vars

FreePcs == {"f_fini", "f_free", "f_done"}

\* C21 (as claimed): after allocate succeeded and free_qpl_context returned,
\* none of the N slot records, the record of the single job and the envelope
\* is still allocated.
C21_FreeReleasesAll ==
    (pc = "f_done" /\ ctx = "ctx") =>
        heap \cap ({Envelope} \cup Records(jobs_number)) = {}

\* the number of qpl_fini_job calls made on record r
FiniCalls(r) == Cardinality({n \in DOMAIN fini_log : fini_log[n] = r})

\* C22: free finalizes every one of the N+1 records exactly once when
\* initialized is true and none when it is false, a record is finalized while
\* it is still allocated and released only after it was finalized; free of a
\* null context finalizes nothing and releases nothing.
C22_FiniOnceBeforeRelease ==
    pc \in FreePcs =>
        /\ \A r \in Records(jobs_number) : FiniCalls(r) <= 1
        /\ \A n \in DOMAIN fini_log : fini_log[n] \in Records(jobs_number)
        /\ pc = "f_fini" => Records(jobs_number) \subseteq heap
        /\ (ctx = "ctx" /\ initialized) =>
               /\ \A r \in Records(jobs_number) : r \notin heap => FiniCalls(r) = 1
               /\ pc = "f_done" => \A r \in Records(jobs_number) : FiniCalls(r) = 1
        /\ ~initialized => fini_log = <<>>
        /\ ctx = "NULL" => fini_log = <<>> /\ heap \subseteq {VectorStorage} /\ pc = "f_done"

C22_Witness ==
    /\ pc = "f_done" /\ ctx = "ctx" /\ initialized /\ jobs_number >= 3
    /\ Len(fini_log) = jobs_number + 1
    /\ Records(jobs_number) \cap heap = {}

\* the records in the order initialize_qpl_context takes them
InitOrder(n) == IF n = 0 THEN SingleJob ELSE Rec(n - 1)

\* C23: when initialize has returned, it returned true iff every one of the
\* N+1 records is initialised; when it returned false the initialised records
\* are exactly those before the first one that failed, none after it.
C23_InitializeStopsAtFirstFailure ==
    pc = "n_done" =>
        /\ initialized <=> inited = Records(jobs_number)
        /\ \E p \in 0..(jobs_number + 1) : inited = {InitOrder(n) : n \in 0..(p - 1)}

C23_Witness ==
    /\ pc = "n_done" /\ ~initialized /\ jobs_number >= 3
    /\ inited = {SingleJob, Rec(0)}

\* blocks * block_size + last_block_size of the header, in unbounded integers,
\* equals v
DeclaredSumIs(v) ==
    /\ d_last_block_size <= v
    /\ IF d_blocks = 0
       THEN d_last_block_size = v
       ELSE /\ d_block_size <= v \div d_blocks
            /\ d_blocks * d_block_size + d_last_block_size = v

\* C24 (as claimed): when decompress has returned on its success path,
\* *decompressed_size is blocks * block_size + last_block_size of the header if
\* the header declares blocks # 0, and the total_out of the single job if it
\* declares blocks = 0.
C24_DecompressedSizeOnSuccess ==
    pc = "d_done" =>
        IF d_blocks = 0
        THEN decompressed_size = job.total_out
        ELSE DeclaredSumIs(decompressed_size)

InFlight == {s \in DOMAIN job_c : job_c[s].st = "inflight"}

\* the byte ranges [a, a + n) and [b, b + m) have no byte in common
Disjoint(a, n, b, m) == n = 0 \/ m = 0 \/ a + n <= b \/ b + m <= a

\* the polls of compress at which the job under the cursor is done: its block
\* is the next one the reassembly copies
CopyPending ==
    /\ pc \in {"c_refill_check", "c_refill_stats", "c_drain_check"}
    /\ job_c[next_to_copy_block_idx].st = "ok"

\* C27: whenever the reassembly is about to copy a block, the bytes it writes,
\* [next_to_copy_dst_addr, next_to_copy_dst_addr + block_comp_size), share no
\* byte with the scratch window of any job that is still in flight.
C27_CopyAvoidsOutstandingWindows ==
    CopyPending =>
        \A s \in InFlight :
            Disjoint(next_to_copy_dst_addr, block_comp_size,
                     job_c[s].next_out_ptr, job_c[s].available_out)

C27_Witness ==
    /\ CopyPending
    /\ next_to_copy_block >= 1
    /\ block_comp_size = out_block_size
    /\ \E s \in InFlight :
          job_c[s].next_out_ptr = next_to_copy_dst_addr + block_comp_size

\* the number of blocks of the input: T = ceil(S / B)
TotalBlocks == input_size \div block_size + (IF input_size % block_size > 0 THEN 1 ELSE 0)
MinOf(a, b) == IF a < b THEN a ELSE b

\* the index of the block job s is configured for: compress gives block k the
\* input at k * block_size, decompress gives it the output at k * block_size
BlockOf(s) ==
    IF job_c[s].op = "compress"
    THEN job_c[s].next_in_ptr \div block_size
    ELSE job_c[s].next_out_ptr \div block_size

\* C28 (as claimed): during compress and decompress at most min(N, T) jobs are
\* in flight, any two jobs in flight work on different blocks, and their input
\* windows and their output windows are disjoint.
C28_InFlightBounded ==
    pc \in (CompressPcs \cup DecompressPcs) =>
        /\ Cardinality(InFlight) <= MinOf(jobs_number, TotalBlocks)
        /\ \A s, t \in InFlight :
               s # t =>
                   /\ BlockOf(s) # BlockOf(t)
                   /\ Disjoint(job_c[s].next_in_ptr, job_c[s].available_in,
                               job_c[t].next_in_ptr, job_c[t].available_in)
                   /\ Disjoint(job_c[s].next_out_ptr, job_c[s].available_out,
                               job_c[t].next_out_ptr, job_c[t].available_out)

\* C29: a job is submitted only while it is not in flight; in the refill loops
\* it is configured and submitted only after the poll of that job returned
\* QPL_STS_OK, and its total_out is read only when it is done.
C29_ReuseOnlyAfterOk ==
    /\ pc \in SubmitPcs => job_c[SubmitSlot].st # "inflight"
    /\ pc \in {"c_refill_submit", "d_refill_submit"} =>
           /\ job_c[SubmitSlot].st = "ok"
           /\ (status.call = "check" /\ status.slot = SubmitSlot) =>
                  status.status = QPL_STS_OK
    /\ pc = "c_refill_stats" =>
           /\ job_c[next_to_copy_block_idx].st = "ok"
           /\ j = 1 => status = [call |-> "check", slot |-> next_to_copy_block_idx,
                                  status |-> QPL_STS_OK]

C29_Witness ==
    /\ pc = "c_refill_submit"
    /\ status = [call |-> "check", slot |-> next_to_copy_block_idx, status |-> QPL_STS_OK]
    /\ i > jobs_number
    /\ InFlight # {}

\* C30: at every poll of multi-block compress the cursor is
\* next_to_copy_block mod N and the job under it holds block
\* next_to_copy_block; a job s only holds blocks b with b mod N = s; the
\* table holds the sizes of exactly the blocks before next_to_copy_block and
\* the output cursor stands right after them.
C30_RoundRobinInBlockOrder ==
    /\ pc \in CompressPcs =>
           \A s \in DOMAIN job_c :
               job_c[s].op = "compress" =>
                   (job_c[s].next_in_ptr \div block_size) % jobs_number = s
    /\ pc \in {"c_refill_check", "c_refill_stats", "c_drain_check"} =>
           /\ next_to_copy_block_idx = next_to_copy_block % jobs_number
           /\ job_c[next_to_copy_block_idx].next_in_ptr = next_to_copy_block * block_size
           /\ next_to_copy_dst_addr = header_offset + TableSum(next_to_copy_block)
           /\ \A k \in 0..blocks :
                  (hdr[TableWord(k)] # UWord) <=> (k < next_to_copy_block)

C30_Witness ==
    /\ pc = "c_drain_check"
    /\ jobs_number >= 2
    /\ next_to_copy_block > jobs_number
    /\ next_to_copy_block_idx = next_to_copy_block % jobs_number

\* no engine call of the run failed and no job ended in an error
EngineAlwaysOk ==
    /\ faults = 0
    /\ job.st # "err"
    /\ \A s \in DOMAIN job_c : job_c[s].st # "err"

\* C31 (as claimed): when the host thread keeps running and the engine finishes
\* every job, compress returns and decompress of the frame returns; if every
\* job reported QPL_STS_OK, a multi-block call has by then submitted every
\* block of its plan and has seen each of them complete.
C31_CallsReturnAfterAllBlocks ==
    /\ <>(pc \in CompressReturned)
    /\ [](pc \in DecompressPcs => <>(pc \in DecompressReturned))
    /\ []((pc \in CompressReturned /\ MultiBlock /\ EngineAlwaysOk) =>
             (i >= TotalBlocks /\ next_to_copy_block = i))
    /\ []((pc \in DecompressReturned /\ MultiBlock /\ EngineAlwaysOk) =>
             (i >= TotalBlocks /\ \A s \in DOMAIN job_c : job_c[s].st # "inflight"))

\* C32 (as claimed): once compress waits for its final batch it returns, also
\* when the engine never finishes a job: the wait is bounded by a deadline.
C32_CompressDrainReturns ==
    (pc = "c_drain_check") ~> (pc \in CompressReturned)

\* C33: the step on which the barrier times out ends decompress with
\* *decompressed_size still the value the caller passed in, and after that
\* return the host thread makes no engine call.
C33_TimeoutLeavesSize ==
    [][/\ (pc = "d_wait" /\ pc' = "d_failed") =>
             /\ decompressed_size' = out_capacity
             /\ decompressed_size' = decompressed_size
             /\ status'.call = "check"
       /\ pc = "d_failed" => (pc' = pc /\ status' = status)]_vars

C33_Witness ==
    /\ pc = "d_failed"
    /\ hdr[2] # 0 /\ i = hdr[2] + 1
    /\ status.call = "check"
    /\ \E s \in DOMAIN job_c : status_check_c[s] = QPL_STS_BEING_PROCESSED
    /\ decompressed_size = out_capacity
    /\ decompressed_size # ToNat(DeclaredSize)

\* C34: at every qpl_submit_job of multi-block compress the job submitted is
\* the i-th of the call and its input window is [i * B, i * B + size_i), with
\* size_i = B below index S div B and S mod B at that index; when compress has
\* succeeded the windows submitted end exactly at S.
C34_InputWindowsPartition ==
    /\ pc \in {"c_fill_submit", "c_refill_submit"} =>
           /\ i <= input_size \div block_size
           /\ job_c[SubmitSlot].next_in_ptr = i * block_size
           /\ job_c[SubmitSlot].available_in =
                  (IF i < input_size \div block_size THEN block_size
                   ELSE input_size % block_size)
    /\ (pc = "c_done" /\ MultiBlock) =>
           /\ i = input_size \div block_size + 1
           /\ (i - 1) * block_size + (input_size % block_size) = input_size

C34_Witness ==
    /\ pc = "c_refill_submit"
    /\ i = input_size \div block_size
    /\ input_size % block_size > 0
    /\ job_c[SubmitSlot].next_in_ptr + job_c[SubmitSlot].available_in = input_size

\* decompress returned early from the per-block size rule (lines 324, 359):
\* a multi-block call failed before its last block was submitted although its
\* last engine call returned QPL_STS_OK
RejectedBySizeRule ==
    /\ pc = "d_failed"
    /\ hdr[2] # 0 /\ i <= hdr[2]
    /\ status.call # "execute" /\ status.status = QPL_STS_OK

\* C35 (as claimed): the per-block size rule rejects a frame whose table is
\* fully written only if some table entry exceeds the declared block_size.
C35_SizeRuleOnlyAboveBlockSize ==
    (RejectedBySizeRule /\ \A k \in 0..hdr[2] : hdr[TableBase + k] # UWord) =>
        \E k \in 0..hdr[2] : hdr[TableBase + k] > hdr[0]

\* C36 (as claimed): every output window compress hands to the engine, that of
\* the single job and every scratch window, ends within the capacity the
\* caller passed in *compressed_size.
C36_OutputWindowsInsideBuffer ==
    /\ pc = "c_exec" => job.next_out_ptr + job.available_out <= capacity
    /\ pc \in CompressPcs =>
           \A s \in DOMAIN job_c :
               job_c[s].op = "compress" =>
                   job_c[s].next_out_ptr + job_c[s].available_out <= capacity

\* C37 (as claimed): every input window decompress hands to the engine, that
\* of the single job and that of every block, ends within the compressed_size
\* bytes of the frame, and so does the header table decompress reads.
C37_InputWindowsInsideFrame ==
    /\ pc = "d_exec" => job.next_in_ptr + job.available_in <= compressed_size
    /\ pc \in DecompressPcs =>
           /\ d_header_offset <= compressed_size
           /\ \A s \in DOMAIN job_c :
                  job_c[s].op = "decompress" =>
                      job_c[s].next_in_ptr + job_c[s].available_in <= compressed_size

C39_SpareJobsStayIdle ==
    (pc = "d_done" /\ hdr[2] # 0 /\ jobs_number > TotalBlocks) =>
        \A s \in TotalBlocks..(jobs_number - 1) :
            /\ job_c[s].op # "decompress"
            /\ status_check_c[s] = QPL_STS_JOB_NOT_SUBMITTED

Next ==
    \/ DecompressStart
    \/ DecompressExecute
    \/ DecompressFillSubmit
    \/ DecompressRefillCheck
    \/ DecompressRefillSubmit
    \/ WaitForAllJobs
    \/ CompressStart
    \/ CompressExecute
    \/ CompressFillSubmit
    \/ CompressRefillCheck
    \/ CompressRefillStats
    \/ CompressRefillCopy
    \/ CompressRefillSubmit
    \/ CompressDrainCheck
    \/ \E s \in 0..(MaxN - 1) : EngineComplete(s)
    \/ \E s \in 0..(MaxN - 1) : EngineFault(s)

Spec == Init /\ [][Next]_vars

\* the steps of the host thread
HostNext ==
    \/ DecompressStart
    \/ DecompressExecute
    \/ DecompressFillSubmit
    \/ DecompressRefillCheck
    \/ DecompressRefillSubmit
    \/ WaitForAllJobs
    \/ CompressStart
    \/ CompressExecute
    \/ CompressFillSubmit
    \/ CompressRefillCheck
    \/ CompressRefillStats
    \/ CompressRefillCopy
    \/ CompressRefillSubmit
    \/ CompressDrainCheck

\* the host thread keeps running; the engine may leave a job unfinished for ever
SpecHost == Init /\ [][Next]_vars /\ WF_vars(HostNext)

\* the host thread keeps running and the engine finishes every job it was given
SpecFair ==
    /\ Init /\ [][Next]_vars
    /\ WF_vars(HostNext)
    /\ \A s \in 0..(MaxN - 1) : WF_vars(EngineComplete(s))

\* decompress called on a crafted frame
NextCrafted ==
    \/ DecompressStart
    \/ DecompressExecute
    \/ DecompressFillSubmit
    \/ DecompressRefillCheck
    \/ DecompressRefillSubmit
    \/ WaitForAllJobs
    \/ \E s \in 0..(MaxCraftJobs - 1) : EngineComplete(s)
    \/ \E s \in 0..(MaxCraftJobs - 1) : EngineFault(s)

SpecCrafted == InitCrafted /\ [][NextCrafted]_vars

\* the engine's test of repeated polls
NextEngine ==
    \/ \E kind \in TestKinds : TestBeforeSubmit(kind)
    \/ \E kind \in TestKinds : TestSubmit(kind)
    \/ TestPollLoop
    \/ \E kind \in TestKinds : TestResult(kind)
    \/ \E kind \in TestKinds : TestRepeat(kind)
    \/ EngineCompleteCrc
    \/ EngineFault(0)

SpecEngine == InitEngine /\ [][NextEngine]_vars

\* the life cycle of a context: allocate, initialize, free
NextAlloc ==
    \/ AllocateCtx
    \/ AllocateJobSize
    \/ AllocateJob
    \/ AllocateVector
    \/ AllocateJobC
    \/ AllocateUnwind
    \/ InitializeJob
    \/ InitializeJobC
    \/ FreeStart
    \/ FreeFini
    \/ FreeRecords

SpecAlloc == InitAlloc /\ [][NextAlloc]_vars
====
